---- MODULE Spec2Model ----
(***************************************************************************)
(* Model of juliaos/packages/rust_signer/src/lib.rs: the encrypted key     *)
(* store (store_new_key_ffi) and the transaction signer                    *)
(* (sign_evm_transaction_ffi) behind their C boundary.                     *)
(*                                                                         *)
(* Conventions                                                             *)
(*  - a byte is a number in 0..255, a byte string a sequence of bytes;     *)
(*  - a text crossing the boundary is [kind, head, pad]: kind "null" (a    *)
(*    null pointer), "badutf8" (bytes that are not UTF-8) or "text", and   *)
(*    then the characters are those of head followed by pad times "00"     *)
(*    (so that a payload of 2^32 characters is a value one can write);     *)
(*  - sizes that may reach 2^32 are held as two limbs <<hi, lo>> of 16     *)
(*    bits (value hi * 2^16 + lo): the model checker's integers are 32     *)
(*    bits wide, usize is 64 and c_uint and c_int are 32;                  *)
(*  - Argon2id, AES-256-GCM, secp256k1 signing and RLP are libraries the   *)
(*    source calls. They are modelled by small functions with the same     *)
(*    interface and the properties the source relies on (deterministic,    *)
(*    key-dependent, tag checked before any plaintext is returned);        *)
(*  - the diagnostics written with eprintln!/println! are assumed to be    *)
(*    writable: they are not part of the state.                            *)
(***************************************************************************)
EXTENDS Integers, Sequences, FiniteSets, TLC

\* ------------------------------------------------------------------------
\* Program constants
\* ------------------------------------------------------------------------
AES_NONCE_SIZE == 12

ARGON2_SALT_SIZE == 16

PK_SIZE == 32

\* ------------------------------------------------------------------------
\* Byte strings
\* ------------------------------------------------------------------------
Rep(x, n) == [i \in 1..n |-> x]

RECURSIVE SumSeq(_)
SumSeq(s) == IF s = <<>> THEN 0 ELSE (Head(s) + SumSeq(Tail(s))) % 65536

\* Weighted byte sum, the mixing step of the stand-in MAC.
RECURSIVE MixSeq(_, _)
MixSeq(s, w) == IF s = <<>> THEN 0
                ELSE (Head(s) * w + MixSeq(Tail(s), (w % 13) + 1)) % 65536

\* ------------------------------------------------------------------------
\* Wide (two limb) sizes
\* ------------------------------------------------------------------------
LimbBase == 2^16

WOf(n) == <<n \div LimbBase, n % LimbBase>>

WAdd(a, b) == <<a[1] + b[1] + ((a[2] + b[2]) \div LimbBase), (a[2] + b[2]) % LimbBase>>

WLess(a, b) == a[1] < b[1] \/ (a[1] = b[1] /\ a[2] < b[2])

WLeq(a, b) == a = b \/ WLess(a, b)

\* usize as c_int: the low 32 bits, read as a two's complement number.
AsCInt(w) ==
  LET h == w[1] % LimbBase
  IN  IF h < LimbBase \div 2 THEN h * LimbBase + w[2]
      ELSE (h - LimbBase) * LimbBase + w[2]

\* c_uint::MAX, the largest capacity a caller can declare.
C_UINT_MAX == <<LimbBase - 1, LimbBase - 1>>

\* ------------------------------------------------------------------------
\* Texts
\* ------------------------------------------------------------------------
NullPtr == [kind |-> "null", head |-> <<>>, pad |-> 0]

BadUtf8 == [kind |-> "badutf8", head |-> <<>>, pad |-> 0]

Text(s) == [kind |-> "text", head |-> s, pad |-> 0]

LongText(s, n) == [kind |-> "text", head |-> s, pad |-> n]

\* c_str_to_string: a null pointer and a byte string that is not UTF-8 are errors.
c_str_to_string(p) ==
  IF p.kind = "null" THEN [ok |-> FALSE, val |-> <<>>, pad |-> 0]
  ELSE IF p.kind = "badutf8" THEN [ok |-> FALSE, val |-> <<>>, pad |-> 0]
  ELSE [ok |-> TRUE, val |-> p.head, pad |-> p.pad]

\* str::strip_prefix("0x").unwrap_or(s)
StripPrefix0x(s) ==
  IF Len(s.val) >= 2 /\ s.val[1] = "0" /\ s.val[2] = "x"
  THEN [s EXCEPT !.val = SubSeq(s.val, 3, Len(s.val))]
  ELSE s

HexDigits == {"0", "1", "2", "3", "4", "5", "6", "7", "8", "9",
              "a", "b", "c", "d", "e", "f"}

HexVal(c) ==
  CASE c = "0" -> 0 [] c = "1" -> 1 [] c = "2" -> 2 [] c = "3" -> 3
    [] c = "4" -> 4 [] c = "5" -> 5 [] c = "6" -> 6 [] c = "7" -> 7
    [] c = "8" -> 8 [] c = "9" -> 9 [] c = "a" -> 10 [] c = "b" -> 11
    [] c = "c" -> 12 [] c = "d" -> 13 [] c = "e" -> 14 [] c = "f" -> 15

AllHex(s) == \A i \in 1..Len(s.val) : s.val[i] \in HexDigits

\* The text has exactly n characters / at most n characters (n small).
TextLenIs(s, n) == s.pad <= n /\ Len(s.val) + 2 * s.pad = n

TextLenLeq(s, n) == s.pad <= n /\ Len(s.val) + 2 * s.pad <= n

\* The characters of a text whose padding is short enough to be written out.
Expand(s) == s.val \o Rep("0", 2 * s.pad)

\* ------------------------------------------------------------------------
\* Field decoders (the library calls of lines 202-234)
\* ------------------------------------------------------------------------
ADDRESS_BYTES == 20

U256_HEX_DIGITS == 64

\* Address::from_str: exactly 40 hexadecimal digits.
parse_address(s) ==
  [ok |-> AllHex(s) /\ TextLenIs(s, 2 * ADDRESS_BYTES)]

RECURSIVE DropZeros(_)
DropZeros(d) == IF d # <<>> /\ Head(d) = 0 THEN DropZeros(Tail(d)) ELSE d

\* U256::from_str_radix(_, 16): at most 64 hexadecimal digits. The value is kept
\* as its big-endian nibbles without leading zeros.
parse_u256(s) ==
  IF AllHex(s) /\ TextLenLeq(s, U256_HEX_DIGITS)
  THEN [ok |-> TRUE,
        nibbles |-> DropZeros([i \in 1..Len(Expand(s)) |-> HexVal(Expand(s)[i])])]
  ELSE [ok |-> FALSE, nibbles |-> <<>>]

\* hex::decode: an even number of hexadecimal digits. The result is the bytes
\* of the head followed by `zeros` zero bytes.
hex_decode(s) ==
  IF AllHex(s) /\ Len(s.val) % 2 = 0
  THEN [ok |-> TRUE,
        bytes |-> [i \in 1..(Len(s.val) \div 2) |->
                     16 * HexVal(s.val[2 * i - 1]) + HexVal(s.val[2 * i])],
        zeros |-> s.pad]
  ELSE [ok |-> FALSE, bytes |-> <<>>, zeros |-> 0]

\* ------------------------------------------------------------------------
\* RLP lengths of the signed transaction (rlp_signed, line 253)
\* ------------------------------------------------------------------------
RECURSIVE ByteLen(_)
ByteLen(n) == IF n = 0 THEN 0 ELSE 1 + ByteLen(n \div 256)

\* A byte string of `len` bytes whose first byte is `first`.
RlpStrLen(len, first) ==
  IF len = 1 /\ first < 128 THEN 1
  ELSE IF len <= 55 THEN 1 + len
  ELSE 1 + ByteLen(len) + len

\* An unsigned integer given as a number.
RlpNatLen(n) == RlpStrLen(ByteLen(n), n)

\* An unsigned integer given as nibbles without leading zeros.
RlpNibblesLen(d) ==
  LET len   == (Len(d) + 1) \div 2
      first == IF Len(d) = 0 THEN 0
               ELSE IF Len(d) % 2 = 1 THEN d[1] ELSE 16 * d[1] + d[2]
  IN  RlpStrLen(len, first)

RlpListLen(payload) ==
  IF payload <= 55 THEN 1 + payload ELSE 1 + ByteLen(payload) + payload

\* EIP-155: v = recovery id + 35 + 2 * chain id.
to_eip155_v(recid, chain_id) == recid + 35 + 2 * chain_id

\* Length in bytes of rlp([nonce, gas_price, gas, to, value, data, v, r, s]).
rlp_signed_len(tx, sig) ==
  LET dataLen == Len(tx.data.bytes) + tx.data.zeros
      first   == IF tx.data.bytes = <<>> THEN 0 ELSE tx.data.bytes[1]
  IN  RlpListLen(RlpNatLen(tx.nonce) + RlpNibblesLen(tx.gas_price)
                 + RlpNatLen(tx.gas) + (1 + ADDRESS_BYTES)
                 + RlpNibblesLen(tx.value) + RlpStrLen(dataLen, first)
                 + RlpNatLen(sig.v) + (1 + sig.rlen) + (1 + sig.slen))

\* format!("0x{}", hex::encode(bytes)).len(): two characters per byte and the prefix.
signed_tx_hex_len(rlpLen) == WAdd(WAdd(WOf(rlpLen), WOf(rlpLen)), WOf(2))

\* ------------------------------------------------------------------------
\* base64 (BASE64_STANDARD): a text of sextets 0..63, 64 is the padding "=",
\* anything larger is a character outside the alphabet
\* ------------------------------------------------------------------------
B64_PAD == 64

RECURSIVE base64_encode(_)
base64_encode(b) ==
  IF b = <<>> THEN <<>>
  ELSE IF Len(b) = 1
  THEN <<b[1] \div 4, (b[1] % 4) * 16, B64_PAD, B64_PAD>>
  ELSE IF Len(b) = 2
  THEN <<b[1] \div 4, (b[1] % 4) * 16 + b[2] \div 16, (b[2] % 16) * 4, B64_PAD>>
  ELSE <<b[1] \div 4, (b[1] % 4) * 16 + b[2] \div 16,
         (b[2] % 16) * 4 + b[3] \div 64, b[3] % 64>>
       \o base64_encode(SubSeq(b, 4, Len(b)))

\* Decoding is strict: whole quanta, padding only at the very end, no stray bits.
RECURSIVE base64_decode(_)
base64_decode(t) ==
  IF t = <<>> THEN [ok |-> TRUE, bytes |-> <<>>]
  ELSE IF Len(t) < 4 THEN [ok |-> FALSE, bytes |-> <<>>]
  ELSE
    LET q    == SubSeq(t, 1, 4)
        last == Len(t) = 4
        b1   == q[1] * 4 + q[2] \div 16
        b2   == (q[2] % 16) * 16 + q[3] \div 4
        b3   == (q[3] % 4) * 64 + q[4]
    IN  IF q[1] >= B64_PAD \/ q[2] >= B64_PAD \/ q[3] > B64_PAD \/ q[4] > B64_PAD
        THEN [ok |-> FALSE, bytes |-> <<>>]
        ELSE IF q[3] = B64_PAD
        THEN IF last /\ q[4] = B64_PAD /\ q[2] % 16 = 0
             THEN [ok |-> TRUE, bytes |-> <<b1>>]
             ELSE [ok |-> FALSE, bytes |-> <<>>]
        ELSE IF q[4] = B64_PAD
        THEN IF last /\ q[3] % 4 = 0
             THEN [ok |-> TRUE, bytes |-> <<b1, b2>>]
             ELSE [ok |-> FALSE, bytes |-> <<>>]
        ELSE LET rest == base64_decode(SubSeq(t, 5, Len(t)))
             IN  [ok |-> rest.ok,
                  bytes |-> IF rest.ok THEN <<b1, b2, b3>> \o rest.bytes ELSE <<>>]

\* ------------------------------------------------------------------------
\* EncryptedKeyFile and its JSON document: the sequence of its members
\* ------------------------------------------------------------------------
Member(k, v) == [k |-> k, v |-> v]

\* serde_json::to_string_pretty(&EncryptedKeyFile): the fields in declaration order.
to_string_pretty(f) ==
  <<Member("salt", f.salt), Member("nonce", f.nonce), Member("ciphertext", f.ciphertext)>>

Values(doc, k) == {i \in 1..Len(doc) : doc[i].k = k}

\* serde_json::from_str::<EncryptedKeyFile>: every field exactly once (a missing
\* or a repeated field is an error, an unknown member is skipped).
from_str(doc) ==
  IF \A k \in {"salt", "nonce", "ciphertext"} : Cardinality(Values(doc, k)) = 1
  THEN [ok |-> TRUE,
        salt |-> doc[CHOOSE i \in Values(doc, "salt") : TRUE].v,
        nonce |-> doc[CHOOSE i \in Values(doc, "nonce") : TRUE].v,
        ciphertext |-> doc[CHOOSE i \in Values(doc, "ciphertext") : TRUE].v]
  ELSE [ok |-> FALSE, salt |-> <<>>, nonce |-> <<>>, ciphertext |-> <<>>]

\* ------------------------------------------------------------------------
\* Key derivation and the cipher
\* ------------------------------------------------------------------------
Ascii(c) ==
  CASE c = "p" -> 112 [] c = "q" -> 113 [] c = "w" -> 119
    [] c \in HexDigits /\ HexVal(c) < 10 -> 48 + HexVal(c)
    [] OTHER -> 97

as_bytes(s) == [i \in 1..Len(s) |-> Ascii(s[i])]

ARGON2_MIN_SALT_LEN == 8

AES_TAG_SIZE == 16

\* derive_encryption_key: Argon2id(password, salt) -> 32 bytes; a salt shorter
\* than the library's minimum is the error of line 71.
derive_encryption_key(password, salt_bytes) ==
  IF Len(salt_bytes) < ARGON2_MIN_SALT_LEN
  THEN [ok |-> FALSE, key |-> <<>>]
  ELSE [ok |-> TRUE,
        key |-> [i \in 1..PK_SIZE |->
                   (MixSeq(as_bytes(password), i) + 31 * Len(password)
                    + 7 * salt_bytes[((i - 1) % Len(salt_bytes)) + 1]
                    + SumSeq(salt_bytes)) % 256]]

KeyStream(key, nonce, i) == (key[((i - 1) % PK_SIZE) + 1] + 5 * nonce[((i - 1) % AES_NONCE_SIZE) + 1] + i) % 256

AuthTag(key, nonce, body) ==
  [j \in 1..AES_TAG_SIZE |->
     (key[j] + 3 * key[j + AES_TAG_SIZE] + nonce[((j - 1) % AES_NONCE_SIZE) + 1]
      + MixSeq(body, j) + Len(body)) % 256]

\* Variant of aes_gcm_encrypt that leaves the plaintext as it is and only adds
\* the tag.
aes_gcm_encrypt_NoKeyStream(key, nonce, pt) == pt \o AuthTag(key, nonce, pt)

\* Aes256Gcm::encrypt(nonce, plaintext): ciphertext followed by the 16-byte tag.
aes_gcm_encrypt(key, nonce, pt) ==
  LET body == [i \in 1..Len(pt) |-> (pt[i] + KeyStream(key, nonce, i)) % 256]
  IN  body \o AuthTag(key, nonce, body)

\* Variant of TagVerifies that accepts every tag.
TagVerifies_AcceptsAll(key, nonce, body, tag) == TRUE

\* Variant of TagVerifies that leaves the last byte of the tag out of the
\* comparison.
TagVerifies_IgnoresLastByte(key, nonce, body, tag) ==
  SubSeq(tag, 1, AES_TAG_SIZE - 1) = SubSeq(AuthTag(key, nonce, body), 1, AES_TAG_SIZE - 1)

\* The comparison of the received tag with the computed one.
TagVerifies(key, nonce, body, tag) == tag = AuthTag(key, nonce, body)

\* Variant of aes_gcm_decrypt that hands back the body as it is, key stream
\* still on it.
aes_gcm_decrypt_KeepsKeyStream(key, nonce, ct) ==
  IF Len(ct) < AES_TAG_SIZE THEN [ok |-> FALSE, pt |-> <<>>]
  ELSE
    LET n    == Len(ct) - AES_TAG_SIZE
        body == SubSeq(ct, 1, n)
        tag  == SubSeq(ct, n + 1, Len(ct))
    IN  IF TagVerifies(key, nonce, body, tag)
        THEN [ok |-> TRUE, pt |-> body]
        ELSE [ok |-> FALSE, pt |-> <<>>]

\* Aes256Gcm::decrypt(nonce, ciphertext): the tag is verified first, and nothing
\* is returned unless it verifies.
aes_gcm_decrypt(key, nonce, ct) ==
  IF Len(ct) < AES_TAG_SIZE THEN [ok |-> FALSE, pt |-> <<>>]
  ELSE
    LET n    == Len(ct) - AES_TAG_SIZE
        body == SubSeq(ct, 1, n)
        tag  == SubSeq(ct, n + 1, Len(ct))
    IN  IF TagVerifies(key, nonce, body, tag)
        THEN [ok |-> TRUE,
              pt |-> [i \in 1..n |-> (body[i] + 256 - KeyStream(key, nonce, i)) % 256]]
        ELSE [ok |-> FALSE, pt |-> <<>>]

\* encrypt_pk_and_prepare_file_data, given what OsRng returned for salt and nonce.
encrypt_pk_and_prepare_file_data(pk_bytes, master_password, salt_bytes, nonce_bytes) ==
  LET k == derive_encryption_key(master_password, salt_bytes)
  IN  IF ~k.ok THEN [ok |-> FALSE, file |-> <<>>]
      ELSE [ok |-> TRUE,
            file |-> [salt |-> base64_encode(salt_bytes),
                      nonce |-> base64_encode(nonce_bytes),
                      ciphertext |-> base64_encode(
                                       aes_gcm_encrypt(k.key, nonce_bytes, pk_bytes))]]

\* ------------------------------------------------------------------------
\* load_and_decrypt_pk from line 116 on: the content of the key file has been
\* read. res is "ok", "err" (the Err of lines 117-135) or "panic"
\* (Nonce::from_slice on a slice that is not 12 bytes long, line 129);
\* steps lists what ran.
\* ------------------------------------------------------------------------
Failed(outcome, steps) == [res |-> outcome, pk |-> <<>>, steps |-> steps]

\* Nonce::from_slice (GenericArray::from_slice) asserts the length of the slice.
NonceFromSliceOk(nonce_bytes) == Len(nonce_bytes) = AES_NONCE_SIZE

decrypt_key_file(file_content, master_password) ==
  LET enc   == from_str(file_content)
      salt  == base64_decode(enc.salt)
      nonce == base64_decode(enc.nonce)
      ct    == base64_decode(enc.ciphertext)
      k     == derive_encryption_key(master_password, salt.bytes)
      pt    == aes_gcm_decrypt(k.key, nonce.bytes, ct.bytes)
  IN  IF ~enc.ok THEN Failed("err", <<"deserialize">>)
      ELSE IF ~salt.ok \/ ~nonce.ok \/ ~ct.ok THEN Failed("err", <<"deserialize">>)
      ELSE IF ~k.ok THEN Failed("err", <<"deserialize", "derive">>)
      ELSE IF ~NonceFromSliceOk(nonce.bytes)
      THEN Failed("panic", <<"deserialize", "derive">>)
      ELSE IF ~pt.ok THEN Failed("err", <<"deserialize", "derive", "decrypt">>)
      ELSE IF Len(pt.pt) # PK_SIZE
      THEN Failed("err", <<"deserialize", "derive", "decrypt">>)
      ELSE [res |-> "ok", pk |-> pt.pt, steps |-> <<"deserialize", "derive", "decrypt">>]

\* ------------------------------------------------------------------------
\* SigningKey::from_bytes: a scalar in 1..n-1, n the order of secp256k1
\* ------------------------------------------------------------------------
SECP256K1_ORDER ==
  <<255, 255, 255, 255, 255, 255, 255, 255, 255, 255, 255, 255, 255, 255, 255, 254,
    186, 174, 220, 230, 175, 72, 160, 59, 191, 210, 94, 140, 208, 54, 65, 65>>

RECURSIVE LexLess(_, _)
LexLess(a, b) ==
  IF a = <<>> THEN FALSE
  ELSE IF Head(a) # Head(b) THEN Head(a) < Head(b)
  ELSE LexLess(Tail(a), Tail(b))

signing_key_from_bytes(pk) ==
  [ok |-> pk # Rep(0, PK_SIZE) /\ LexLess(pk, SECP256K1_ORDER)]

\* ------------------------------------------------------------------------
\* sign_evm_transaction_ffi from line 191 on (the body of the closure once
\* load_and_decrypt_pk has returned). A result of the closure is
\*   unwound  a panic left the closure,
\*   val      the value the closure returned (when it did),
\*   writes   the runs written to the caller's buffer, in order,
\*   steps    what ran,
\*   pk       the decrypted key the closure held,
\*   tx       the assembled transaction, or NoTx,
\*   signed   a signature was computed,
\*   hexlen   the length of signed_tx_hex (two limbs), <<0, 0>> before line 254.
\* ------------------------------------------------------------------------
NoTx == [built |-> FALSE]

Closure(unwound, val, writes, steps, pk, tx, signed, hexlen) ==
  [unwound |-> unwound, val |-> val, writes |-> writes, steps |-> steps,
   pk |-> pk, tx |-> tx, signed |-> signed, hexlen |-> hexlen]

Returned(val, steps, pk, tx, signed, hexlen) ==
  Closure(FALSE, val, <<>>, steps, pk, tx, signed, hexlen)

\* A run of `len` bytes written at offset `off` (both two limbs).
Run(off, len, src) == [off |-> off, len |-> len, src |-> src]

\* Variant of assemble_tx that takes a value it cannot parse for zero.
assemble_tx_BadValueIsZero(args) ==
  LET to_str    == c_str_to_string(args.to)
      to_addr   == parse_address(StripPrefix0x(to_str))
      value     == parse_u256(StripPrefix0x(c_str_to_string(args.value)))
      data_str  == c_str_to_string(args.data)
      data      == hex_decode(StripPrefix0x(data_str))
      gp_str    == c_str_to_string(args.gas_price)
      gas_price == parse_u256(StripPrefix0x(gp_str))
  IN  IF ~to_str.ok \/ ~to_addr.ok THEN NoTx
      ELSE IF ~data_str.ok \/ ~data.ok THEN NoTx
      ELSE IF ~gp_str.ok \/ ~gas_price.ok THEN NoTx
      ELSE [built |-> TRUE, to |-> StripPrefix0x(to_str).val, value |-> value.nibbles,
            data |-> [bytes |-> data.bytes, zeros |-> data.zeros],
            nonce |-> args.nonce, gas_price |-> gas_price.nibbles,
            gas |-> args.gas_limit]

\* Lines 198-244: the fields are converted and parsed in the order to, value,
\* data, gas price; the first failure returns -4.
assemble_tx(args) ==
  LET to_str    == c_str_to_string(args.to)
      to_addr   == parse_address(StripPrefix0x(to_str))
      value_str == c_str_to_string(args.value)
      value     == parse_u256(StripPrefix0x(value_str))
      data_str  == c_str_to_string(args.data)
      data      == hex_decode(StripPrefix0x(data_str))
      gp_str    == c_str_to_string(args.gas_price)
      gas_price == parse_u256(StripPrefix0x(gp_str))
  IN  IF ~to_str.ok \/ ~to_addr.ok THEN NoTx
      ELSE IF ~value_str.ok \/ ~value.ok THEN NoTx
      ELSE IF ~data_str.ok \/ ~data.ok THEN NoTx
      ELSE IF ~gp_str.ok \/ ~gas_price.ok THEN NoTx
      ELSE [built |-> TRUE, to |-> StripPrefix0x(to_str).val, value |-> value.nibbles,
            data |-> [bytes |-> data.bytes, zeros |-> data.zeros],
            nonce |-> args.nonce, gas_price |-> gas_price.nibbles,
            gas |-> args.gas_limit]

\* Variant of BufferTooSmall that forgets the terminator: len > capacity.
BufferTooSmall_NoTerminator(hexlen, cap) == WLess(cap, hexlen)

\* Line 256: signed_tx_hex.len() + 1 > out_buffer_len_c as usize.
BufferTooSmall(hexlen, cap) == WLess(cap, WAdd(hexlen, WOf(1)))

\* Variant of write_result that copies the terminator of the CString along with
\* the characters and then writes its own after it.
write_result_TwoTerminators(hexlen) ==
  <<Run(WOf(0), WAdd(hexlen, WOf(1)), "hex"), Run(WAdd(hexlen, WOf(1)), WOf(1), "nul")>>

\* Lines 266-267: the copy of the characters, then the terminator. (CString::new
\* cannot fail at line 262: hex::encode yields no NUL character.)
write_result(hexlen) == <<Run(WOf(0), hexlen, "hex"), Run(hexlen, WOf(1), "nul")>>

\* Line 270: signed_tx_hex.len() as c_int.
ReturnedLength(hexlen) == AsCInt(hexlen)

\* Variant of sign_after_load that computes the signature before it decodes
\* the fields.
sign_after_load_SignsFirst(args, load, sig) ==
  LET sk     == signing_key_from_bytes(load.pk)
      tx     == assemble_tx(args)
      s1     == load.steps \o <<"signing_key">>
      s2     == s1 \o <<"sign">>
      s3     == s2 \o <<"assemble">>
      s4     == s3 \o <<"encode", "capacity">>
      hexlen == signed_tx_hex_len(rlp_signed_len(tx,
                  [v |-> to_eip155_v(sig.recid, args.chain_id),
                   rlen |-> sig.rlen, slen |-> sig.slen]))
  IN  IF load.res = "panic"
      THEN Closure(TRUE, 0, <<>>, load.steps, <<>>, NoTx, FALSE, WOf(0))
      ELSE IF load.res = "err"
      THEN Returned(-1, load.steps, <<>>, NoTx, FALSE, WOf(0))
      ELSE IF ~sk.ok THEN Returned(-1, s1, load.pk, NoTx, FALSE, WOf(0))
      ELSE IF ~sig.ok THEN Returned(-2, s2, load.pk, NoTx, FALSE, WOf(0))
      ELSE IF ~tx.built THEN Returned(-4, s3, load.pk, NoTx, TRUE, WOf(0))
      ELSE IF BufferTooSmall(hexlen, args.cap)
      THEN Returned(-3, s4, load.pk, tx, TRUE, hexlen)
      ELSE Closure(FALSE, ReturnedLength(hexlen), write_result(hexlen),
                   s4 \o <<"write">>, load.pk, tx, TRUE, hexlen)

sign_after_load(args, load, sig) ==
  LET sk     == signing_key_from_bytes(load.pk)
      tx     == assemble_tx(args)
      s1     == load.steps \o <<"signing_key">>
      s2     == s1 \o <<"assemble">>
      s3     == s2 \o <<"sign">>
      s4     == s3 \o <<"encode", "capacity">>
      hexlen == signed_tx_hex_len(rlp_signed_len(tx,
                  [v |-> to_eip155_v(sig.recid, args.chain_id),
                   rlen |-> sig.rlen, slen |-> sig.slen]))
  IN  IF load.res = "panic"
      THEN Closure(TRUE, 0, <<>>, load.steps, <<>>, NoTx, FALSE, WOf(0))
      ELSE IF load.res = "err"
      THEN Returned(-1, load.steps, <<>>, NoTx, FALSE, WOf(0))
      ELSE IF ~sk.ok THEN Returned(-1, s1, load.pk, NoTx, FALSE, WOf(0))
      ELSE IF ~tx.built THEN Returned(-4, s2, load.pk, NoTx, FALSE, WOf(0))
      ELSE IF ~sig.ok THEN Returned(-2, s3, load.pk, tx, FALSE, WOf(0))
      ELSE IF BufferTooSmall(hexlen, args.cap)
      THEN Returned(-3, s4, load.pk, tx, TRUE, hexlen)
      ELSE Closure(FALSE, ReturnedLength(hexlen), write_result(hexlen),
                   s4 \o <<"write">>, load.pk, tx, TRUE, hexlen)

\* Variant of catch_unwind that does not tell a panic from a return.
catch_unwind_TakesValue(r) == r.val

\* Lines 273-276 and 334-337: what catch_unwind hands back becomes the status.
catch_unwind(r) == IF r.unwound THEN -5 ELSE r.val

\* ------------------------------------------------------------------------
\* Diagnostics: what eprintln! and println! are given to format, for a call
\* with arguments `a` whose closure ended with `r`. An argument is named by
\* where it comes from; an error value (the `e` of the messages) by the step
\* that failed.
\* ------------------------------------------------------------------------
Arg(src, val) == [src |-> src, val |-> val]

Msg(text, args) == [text |-> text, args |-> args]

LastStep(r) == IF r.steps = <<>> THEN "none" ELSE r.steps[Len(r.steps)]

\* Lines 198-234: the message of the first field that fails.
FieldDiagnostic(a) ==
  LET to_str    == c_str_to_string(a.to)
      value_str == c_str_to_string(a.value)
      data_str  == c_str_to_string(a.data)
      gp_str    == c_str_to_string(a.gas_price)
  IN  IF ~to_str.ok THEN Msg("Error converting to_address", <<Arg("error", "to")>>)
      ELSE IF ~parse_address(StripPrefix0x(to_str)).ok
      THEN Msg("Error parsing to_address", <<Arg("to", a.to), Arg("error", "to")>>)
      ELSE IF ~value_str.ok THEN Msg("Error converting value_wei_hex", <<Arg("error", "value")>>)
      ELSE IF ~parse_u256(StripPrefix0x(value_str)).ok
      THEN Msg("Error parsing value_wei_hex", <<Arg("value", a.value), Arg("error", "value")>>)
      ELSE IF ~data_str.ok THEN Msg("Error converting data_hex", <<Arg("error", "data")>>)
      ELSE IF ~hex_decode(StripPrefix0x(data_str)).ok
      THEN Msg("Error decoding data_hex", <<Arg("data", a.data), Arg("error", "data")>>)
      ELSE IF ~gp_str.ok
      THEN Msg("Error converting gas_price_wei_hex", <<Arg("error", "gas_price")>>)
      ELSE Msg("Error parsing gas_price_wei_hex",
               <<Arg("gas_price", a.gas_price), Arg("error", "gas_price")>>)

\* Lines 172-275.
sign_diagnostics(a, r) ==
  LET last == LastStep(r)
  IN  IF r.unwound THEN <<Msg("Panic caught in sign_evm_transaction_ffi", <<>>)>>
      ELSE IF last = "convert_id"
      THEN <<Msg("Error converting key_identifier", <<Arg("error", last)>>)>>
      ELSE IF last = "password"
      THEN <<Msg("Master password ENV var not set", <<Arg("const", "JULIAOS_KEYSTORE_PASSWORD")>>)>>
      ELSE IF last \in {"storage_path", "exists", "read", "deserialize", "derive", "decrypt"}
      THEN <<Msg("Failed to load/decrypt private key",
                 <<Arg("key_id", a.key_id), Arg("error", last)>>)>>
      ELSE IF last = "signing_key"
      THEN <<Msg("Failed to create k256::SigningKey from decrypted bytes.", <<>>)>>
      ELSE IF last = "assemble" THEN <<FieldDiagnostic(a)>>
      ELSE IF last = "sign" THEN <<Msg("Error signing transaction", <<Arg("error", last)>>)>>
      ELSE IF last = "capacity"
      THEN <<Msg("Output buffer too small",
                 <<Arg("size", WAdd(r.hexlen, WOf(1))), Arg("size", a.cap)>>)>>
      ELSE <<>>

\* Lines 287-336.
store_diagnostics(a, r) ==
  LET last == LastStep(r)
  IN  IF r.unwound THEN <<Msg("Panic caught in store_new_key_ffi", <<>>)>>
      ELSE IF last = "convert_id"
      THEN <<Msg("Error converting key_identifier for store", <<Arg("error", last)>>)>>
      ELSE IF last = "password"
      THEN <<Msg("Error converting master_password for store", <<Arg("error", last)>>)>>
      ELSE IF last = "encrypt"
      THEN <<Msg("Failed to encrypt new key", <<Arg("key_id", a.key_id), Arg("error", last)>>)>>
      ELSE IF last = "storage_path"
      THEN <<Msg("Failed to get key_storage_path for store", <<Arg("error", last)>>)>>
      ELSE IF last = "exists"
      THEN <<Msg("Key file already exists for identifier", <<Arg("key_id", a.key_id)>>)>>
      ELSE IF r.val = 0
      THEN <<Msg("Successfully stored new encrypted key for identifier",
                 <<Arg("key_id", a.key_id)>>)>>
      ELSE <<Msg("Failed to write key file", <<Arg("key_id", a.key_id), Arg("error", last)>>)>>

\* ------------------------------------------------------------------------
\* What the callers and the environment may do
\* ------------------------------------------------------------------------
Procs == {1, 2}

KeyA == <<"a">>

\* Identifiers with path components: "../a" and "./a" ("/", ".." and "." are
\* one element each).
KeyUp == <<"..", "/", "a">>

KeyDot == <<".", "/", "a">>

Identifiers == {KeyA, KeyUp, KeyDot}

P1 == <<"p", "w", "1">>

P2 == <<"p", "w", "2">>

Passwords == {P1, P2}

\* What OsRng and SigningKey::random hand out: a secret key, a salt, a nonce.
RngDraws ==
  {[pk |-> Rep(17, PK_SIZE), salt |-> Rep(3, ARGON2_SALT_SIZE), nonce |-> Rep(9, AES_NONCE_SIZE)],
   [pk |-> Rep(200, PK_SIZE), salt |-> Rep(4, ARGON2_SALT_SIZE), nonce |-> Rep(10, AES_NONCE_SIZE)]}

\* What the signing primitive hands back: a failure, or a signature whose r and
\* s take rlen and slen bytes, with its recovery id.
SigOutcomes ==
  {[ok |-> FALSE, rlen |-> 0, slen |-> 0, recid |-> 0],
   [ok |-> TRUE, rlen |-> 32, slen |-> 32, recid |-> 0],
   [ok |-> TRUE, rlen |-> 31, slen |-> 32, recid |-> 1]}

\* Payload sizes (bytes) that bring signed_tx_hex to 2^31 - 2, 2^31 and 2^32 - 2
\* characters when r and s take 32 bytes.
BigPayloads == {2^30 - 106, 2^30 - 105, (2^30 - 53) + (2^30 - 53)}

GoodSign ==
  [op |-> "sign", key_id |-> Text(KeyA),
   to |-> LongText(<<"0", "x">>, ADDRESS_BYTES),
   value |-> Text(<<"0", "x", "1">>), data |-> Text(<<"0", "x">>), nonce |-> 0,
   gas_price |-> Text(<<"0", "x", "1">>), gas_limit |-> 21000, chain_id |-> 1,
   cap |-> WOf(197)]

\* The capacities tried with the plain transaction, whose signed text has 194
\* or 196 characters.
SmallCaps == {WOf(0), WOf(196), WOf(197)}

XYZ == Text(<<"x", "y", "z">>)

SignCalls ==
  {[GoodSign EXCEPT !.cap = c] : c \in SmallCaps}
  \cup {[GoodSign EXCEPT !.key_id = t] : t \in {NullPtr, BadUtf8}}
  \cup {[GoodSign EXCEPT !.to = t] : t \in {NullPtr, LongText(<<"0", "x">>, ADDRESS_BYTES - 1)}}
  \cup {[GoodSign EXCEPT !.value = t] : t \in {BadUtf8, XYZ}}
  \cup {[GoodSign EXCEPT !.data = t] : t \in {Text(<<"0", "x", "1">>), Text(<<"0", "x", "7", "f">>)}}
  \cup {[GoodSign EXCEPT !.gas_price = t] : t \in {Text(<<"g">>)}}
  \cup {[GoodSign EXCEPT !.key_id = NullPtr, !.value = XYZ]}
  \cup {[GoodSign EXCEPT !.data = LongText(<<"0", "x">>, n), !.cap = C_UINT_MAX] : n \in BigPayloads}
  \cup {[GoodSign EXCEPT !.data = LongText(<<"0", "x">>, n), !.cap = <<LimbBase - 1, LimbBase - 2>>]
          : n \in {(2^30 - 53) + (2^30 - 53)}}

\* The signing calls made while other calls are in progress, and what the random
\* source hands out then.
ConcurrentSignCalls == {GoodSign}

ConcurrentDraws == {d \in RngDraws : d.pk[1] = 17}

StoreCalls ==
  {[op |-> "store", key_id |-> i, password |-> w]
     : i \in {Text(KeyA)}, w \in {Text(P1), Text(P2), NullPtr}}
  \cup {[op |-> "store", key_id |-> i, password |-> Text(P1)] : i \in {NullPtr, BadUtf8}}

\* The store calls made while other calls are in progress.
ConcurrentStoreCalls == {a \in StoreCalls : a.key_id = Text(KeyA) /\ a.password.kind = "text"}

\* Calls whose identifiers have path components, next to the plain ones.
PathSignCalls == {[GoodSign EXCEPT !.key_id = Text(i)] : i \in {KeyA, KeyUp}}

PathStoreCalls ==
  {[op |-> "store", key_id |-> Text(i), password |-> Text(P1)] : i \in Identifiers}

HealthCall == [op |-> "health"]

NoCall == [op |-> "none"]

\* ------------------------------------------------------------------------
\* Key files
\* ------------------------------------------------------------------------
\* format!("{}.json", key_identifier), joined to the key store directory.
key_file_name(key_identifier) == Append(key_identifier, ".json")

\* The directory get_key_storage_path returns: KEY_STORE_DIR_NAME in the local
\* data directory of the application (a directory is the sequence of its
\* components from the root).
KeyStoreDir == <<<<"data">>, <<"juliaos_secure_keys">>>>

\* The components of a path, cut at the separators.
RECURSIVE SplitPath(_, _)
SplitPath(s, cur) ==
  IF s = <<>> THEN <<cur>>
  ELSE IF Head(s) = "/" THEN <<cur>> \o SplitPath(Tail(s), <<>>)
  ELSE SplitPath(Tail(s), Append(cur, Head(s)))

\* Where the operating system ends up when it follows the components from dir:
\* an empty component and "." stay, ".." goes to the parent.
RECURSIVE Walk(_, _)
Walk(dir, comps) ==
  IF comps = <<>> THEN dir
  ELSE LET c == Head(comps)
       IN  Walk(IF c = <<>> \/ c = <<".">> THEN dir
                ELSE IF c = <<"..">>
                THEN (IF dir = <<>> THEN dir ELSE SubSeq(dir, 1, Len(dir) - 1))
                ELSE Append(dir, c),
                Tail(comps))

\* PathBuf::join: an absolute path replaces the base, a relative one is
\* followed from it.
join(base, path) ==
  IF path # <<>> /\ Head(path) = "/" THEN Walk(<<>>, SplitPath(path, <<>>))
  ELSE Walk(base, SplitPath(path, <<>>))

\* Lines 107 and 315: key_store_path.join(format!("{}.json", key_id)).
key_file_path(key_identifier) == join(KeyStoreDir, key_file_name(key_identifier))

KeyFiles == {key_file_path(i) : i \in Identifiers}

NoFile == [exists |-> FALSE, content |-> <<>>]

File(content) == [exists |-> TRUE, content |-> content]

\* The document store_new_key_ffi writes for a draw of the random source
\* (lines 295-308).
key_file_json(draw, master_password) ==
  LET enc == encrypt_pk_and_prepare_file_data(draw.pk, master_password,
                                              draw.salt, draw.nonce)
  IN  [ok |-> enc.ok, json |-> IF enc.ok THEN to_string_pretty(enc.file) ELSE <<>>]

\* The key files store_new_key_ffi writes under each password.
RecordsOf == [w \in Passwords |-> {key_file_json(d, w).json : d \in RngDraws}]

IntactRecords == UNION {RecordsOf[w] : w \in Passwords}

TamperKinds == {"ciphertext", "tag", "nonce"}

Bump(bytes, i) == [bytes EXCEPT ![i] = (@ + 1) % 256]

\* A key file as it is after something else than this library changed it: one
\* byte of the ciphertext or of the tag is altered, or the nonce loses a byte.
Tampered(doc, kind) ==
  LET enc == from_str(doc)
      ct  == base64_decode(enc.ciphertext).bytes
      nc  == base64_decode(enc.nonce).bytes
  IN  to_string_pretty(
        CASE kind = "ciphertext" ->
               [salt |-> enc.salt, nonce |-> enc.nonce,
                ciphertext |-> base64_encode(Bump(ct, 1))]
          [] kind = "tag" ->
               [salt |-> enc.salt, nonce |-> enc.nonce,
                ciphertext |-> base64_encode(Bump(ct, Len(ct)))]
          [] kind = "nonce" ->
               [salt |-> enc.salt, nonce |-> base64_encode(Tail(nc)),
                ciphertext |-> enc.ciphertext])

\* The key files of each password with the ciphertext or the tag altered.
CorruptedOf ==
  [w \in Passwords |-> {Tampered(r, k) : r \in RecordsOf[w], k \in {"ciphertext", "tag"}}]

\* Why the decryption of `content` under `password` is bound to fail, when it is
\* for one of the two reasons the callers must not tell apart.
FailureCause(content, password) ==
  IF \E w \in Passwords \ {password} : content \in RecordsOf[w] THEN "wrong_password"
  ELSE IF password \in Passwords /\ content \in CorruptedOf[password] THEN "corrupted"
  ELSE "none"

\* The key file of each draw under each password, and the secret key that was
\* stored in `content` under `password` (none: <<>>).
RecordOf == [w \in Passwords |-> [d \in RngDraws |-> key_file_json(d, w).json]]

StoredSecret(content, password) ==
  IF password \in Passwords /\ content \in RecordsOf[password]
  THEN (CHOOSE d \in RngDraws : RecordOf[password][d] = content).pk
  ELSE <<>>

\* ------------------------------------------------------------------------
\* State
\* ------------------------------------------------------------------------
VARIABLES
  envPw,      \* JULIAOS_KEYSTORE_PASSWORD in the process environment
  dirExists,  \* the key store directory exists
  files,      \* the files of the key store directory, by name
  pc,         \* where each caller's call stands
  call,       \* the arguments of the call in progress, or of the last call
  loc,        \* the locals the call holds between two steps, and what is
              \* remembered of the call: late (the call began after a store of
              \* the same key file had returned 0), cause (FailureCause of what
              \* the call read), loaded (load_and_decrypt_pk was entered), fault
              \* (the platform failed the call: no randomness, no data
              \* directory, a file operation that failed), secret
              \* (StoredSecret of what the call read)
  outBuf,     \* the runs written to the caller's output buffer during the call
  res,        \* the result of the closure given to catch_unwind
  status,     \* the returned status
  stored0     \* the key files for which a store_new_key_ffi call has returned 0

vars == <<envPw, dirExists, files, pc, call, loc, outBuf, res, status, stored0>>

Unset == [set |-> FALSE, val |-> <<>>]

SetTo(w) == [set |-> TRUE, val |-> w]

EnvValues == {Unset} \cup {SetTo(w) : w \in Passwords}

NoLoc == [pw |-> <<>>, json |-> <<>>, steps |-> <<>>, late |-> FALSE,
          cause |-> "none", loaded |-> FALSE, fault |-> FALSE, secret |-> <<>>]

NoRes == Closure(FALSE, 0, <<>>, <<>>, <<>>, NoTx, FALSE, WOf(0))

Init ==
  /\ envPw = Unset
  /\ dirExists = FALSE
  /\ files = [f \in KeyFiles |-> NoFile]
  /\ pc = [p \in Procs |-> "idle"]
  /\ call = [p \in Procs |-> NoCall]
  /\ loc = [p \in Procs |-> NoLoc]
  /\ outBuf = [p \in Procs |-> <<>>]
  /\ res = [p \in Procs |-> NoRes]
  /\ status = [p \in Procs |-> 0]
  /\ stored0 = {}

\* The call of p ends: the closure has returned or unwound with r, and
\* catch_unwind maps it to the status. The locals are gone.
Finish(p, r) ==
  /\ pc' = [pc EXCEPT ![p] = "done"]
  /\ res' = [res EXCEPT ![p] = r]
  /\ status' = [status EXCEPT ![p] = catch_unwind(r)]
  /\ outBuf' = [outBuf EXCEPT ![p] = r.writes]

Forget(p) == loc' = [loc EXCEPT ![p].pw = <<>>, ![p].json = <<>>, ![p].steps = <<>>]

\* The same, after the platform has failed the call.
ForgetFault(p) ==
  loc' = [loc EXCEPT ![p].pw = <<>>, ![p].json = <<>>, ![p].steps = <<>>, ![p].fault = TRUE]

Goto(p, label) ==
  /\ pc' = [pc EXCEPT ![p] = label]
  /\ UNCHANGED <<res, status, outBuf>>

\* The caller has taken the status of its last call, if any, and calls again
\* with a buffer nothing was written to.
Begin(p, a, label) ==
  /\ pc[p] \in {"idle", "done"}
  /\ call' = [call EXCEPT ![p] = a]
  /\ pc' = [pc EXCEPT ![p] = label]
  /\ outBuf' = [outBuf EXCEPT ![p] = <<>>]
  /\ res' = [res EXCEPT ![p] = NoRes]
  /\ status' = [status EXCEPT ![p] = 0]

\* get_key_storage_path: no application data directory, or the directory is
\* there, or it is created, or it cannot be created.
StoragePathOutcomes == {"ok", "no_data_dir", "create_failed"}

get_key_storage_path(outcome) ==
  /\ outcome \in StoragePathOutcomes
  /\ outcome = "create_failed" => ~dirExists
  /\ dirExists' = (dirExists \/ outcome = "ok")

\* ------------------------------------------------------------------------
\* sign_evm_transaction_ffi
\* ------------------------------------------------------------------------
SignCall(p, a) ==
  /\ Begin(p, a, "s_env")
  /\ loc' = [loc EXCEPT ![p] = NoLoc]
  /\ UNCHANGED <<envPw, dirExists, files, stored0>>

SignResult(val, steps) == Returned(val, steps, <<>>, NoTx, FALSE, WOf(0))

\* Variant of SignEnv that goes on to the key file without converting the key
\* identifier.
SignEnv_NoIdentifierCheck(p) ==
  /\ pc[p] = "s_env"
  /\ IF ~envPw.set
     THEN /\ Finish(p, SignResult(-1, <<"convert_id", "password">>))
          /\ Forget(p)
     ELSE /\ Goto(p, "s_dir")
          /\ loc' = [loc EXCEPT ![p].pw = envPw.val,
                                ![p].steps = <<"convert_id", "password">>]
  /\ UNCHANGED <<envPw, dirExists, files, call, stored0>>

\* Lines 170-181: the key identifier is converted, the master password is read.
SignEnv(p) ==
  /\ pc[p] = "s_env"
  /\ IF ~c_str_to_string(call[p].key_id).ok
     THEN /\ Finish(p, SignResult(-4, <<"convert_id">>))
          /\ Forget(p)
     ELSE IF ~envPw.set
     THEN /\ Finish(p, SignResult(-1, <<"convert_id", "password">>))
          /\ Forget(p)
     ELSE /\ Goto(p, "s_dir")
          /\ loc' = [loc EXCEPT ![p].pw = envPw.val,
                                ![p].steps = <<"convert_id", "password">>]
  /\ UNCHANGED <<envPw, dirExists, files, call, stored0>>

\* Line 106: load_and_decrypt_pk is entered and looks the directory up.
SignDir(p) ==
  /\ pc[p] = "s_dir"
  /\ \E outcome \in StoragePathOutcomes :
       /\ get_key_storage_path(outcome)
       /\ IF outcome = "ok"
          THEN /\ Goto(p, "s_exists")
               /\ loc' = [loc EXCEPT ![p].steps = @ \o <<"storage_path">>,
                                     ![p].loaded = TRUE]
          ELSE /\ Finish(p, SignResult(-1, loc[p].steps \o <<"storage_path">>))
               /\ loc' = [loc EXCEPT ![p] = [NoLoc EXCEPT !.loaded = TRUE, !.fault = TRUE]]
  /\ UNCHANGED <<envPw, files, call, stored0>>

\* Lines 107-111.
SignExists(p) ==
  /\ pc[p] = "s_exists"
  /\ IF files[key_file_path(call[p].key_id.head)].exists
     THEN /\ Goto(p, "s_read")
          /\ loc' = [loc EXCEPT ![p].steps = @ \o <<"exists">>]
     ELSE /\ Finish(p, SignResult(-1, loc[p].steps \o <<"exists">>))
          /\ Forget(p)
  /\ UNCHANGED <<envPw, dirExists, files, call, stored0>>

\* Lines 113-271: the file is read (or the read fails), and everything after it
\* depends on nothing but what was read, the arguments and the signature.
SignRead(p) ==
  /\ pc[p] = "s_read"
  /\ \/ /\ Finish(p, SignResult(-1, loc[p].steps \o <<"read">>))
        /\ loc' = [loc EXCEPT ![p] = [NoLoc EXCEPT !.loaded = TRUE, !.fault = TRUE]]
     \/ \E sig \in SigOutcomes :
          LET f    == files[key_file_path(call[p].key_id.head)]
              load == decrypt_key_file(f.content, loc[p].pw)
              r    == sign_after_load(call[p], load, sig)
          IN  /\ f.exists
              /\ Finish(p, [r EXCEPT !.steps = loc[p].steps \o <<"read">> \o @])
              /\ loc' = [loc EXCEPT ![p] =
                           [NoLoc EXCEPT !.loaded = TRUE,
                                         !.cause = FailureCause(f.content, loc[p].pw),
                                         !.secret = StoredSecret(f.content, loc[p].pw)]]
  /\ UNCHANGED <<envPw, dirExists, files, call, stored0>>

\* ------------------------------------------------------------------------
\* store_new_key_ffi
\* ------------------------------------------------------------------------
StoreCall(p, a) ==
  /\ Begin(p, a, "t_dir")
  /\ loc' = [loc EXCEPT ![p] =
               [NoLoc EXCEPT !.late = a.key_id.kind = "text"
                                      /\ key_file_path(a.key_id.head) \in stored0]]
  /\ UNCHANGED <<envPw, dirExists, files, stored0>>

StoreResult(val, steps, pk) == Returned(val, steps, pk, NoTx, FALSE, WOf(0))

\* Lines 285-315: the arguments are converted, the key is generated (OsRng
\* panics when the system has no randomness to give), encrypted and serialized,
\* and the key store directory is looked up.
StoreDir(p, draws) ==
  /\ pc[p] = "t_dir"
  /\ LET id == c_str_to_string(call[p].key_id)
         pw == c_str_to_string(call[p].password)
     IN  IF ~id.ok
         THEN /\ Finish(p, StoreResult(-11, <<"convert_id">>, <<>>))
              /\ Forget(p)
              /\ UNCHANGED dirExists
         ELSE IF ~pw.ok
         THEN /\ Finish(p, StoreResult(-12, <<"convert_id", "password">>, <<>>))
              /\ Forget(p)
              /\ UNCHANGED dirExists
         ELSE
           \/ /\ Finish(p, Closure(TRUE, 0, <<>>, <<"convert_id", "password", "generate">>,
                                   <<>>, NoTx, FALSE, WOf(0)))
              /\ ForgetFault(p)
              /\ UNCHANGED dirExists
           \/ \E draw \in draws, outcome \in StoragePathOutcomes :
                LET j  == key_file_json(draw, pw.val)
                    st == <<"convert_id", "password", "generate", "encrypt">>
                IN  IF ~j.ok
                    THEN /\ Finish(p, StoreResult(-13, st, draw.pk))
                         /\ Forget(p)
                         /\ UNCHANGED dirExists
                    ELSE /\ get_key_storage_path(outcome)
                         /\ IF outcome = "ok"
                            THEN /\ Goto(p, "t_exists")
                                 /\ loc' = [loc EXCEPT
                                      ![p].pw = pw.val, ![p].json = j.json,
                                      ![p].steps = st \o <<"serialize", "storage_path">>]
                            ELSE /\ Finish(p, StoreResult(-15,
                                      st \o <<"serialize", "storage_path">>, draw.pk))
                                 /\ ForgetFault(p)
  /\ UNCHANGED <<envPw, files, call, stored0>>

\* Variant of StoreExists that writes whether the key file exists or not.
StoreExists_NoCheck(p) ==
  /\ pc[p] = "t_exists"
  /\ Goto(p, "t_create")
  /\ loc' = [loc EXCEPT ![p].steps = @ \o <<"exists">>]
  /\ UNCHANGED <<envPw, dirExists, files, call, stored0>>

\* Lines 317-320.
StoreExists(p) ==
  /\ pc[p] = "t_exists"
  /\ IF files[key_file_path(call[p].key_id.head)].exists
     THEN /\ Finish(p, StoreResult(-16, loc[p].steps \o <<"exists">>, <<>>))
          /\ Forget(p)
     ELSE /\ Goto(p, "t_create")
          /\ loc' = [loc EXCEPT ![p].steps = @ \o <<"exists">>]
  /\ UNCHANGED <<envPw, dirExists, files, call, stored0>>

\* Line 322, fs::write, first half: the file is created, or truncated if it is
\* there by now.
StoreCreate(p) ==
  /\ pc[p] = "t_create"
  /\ \/ /\ Finish(p, StoreResult(-17, loc[p].steps \o <<"create">>, <<>>))
        /\ ForgetFault(p)
        /\ UNCHANGED files
     \/ /\ files' = [files EXCEPT ![key_file_path(call[p].key_id.head)] = File(<<>>)]
        /\ Goto(p, "t_write")
        /\ loc' = [loc EXCEPT ![p].steps = @ \o <<"create">>]
  /\ UNCHANGED <<envPw, dirExists, call, stored0>>

\* Lines 322-332, fs::write, second half: the document is written, or the write
\* fails and leaves the file as it is.
StoreWrite(p) ==
  /\ pc[p] = "t_write"
  /\ \/ /\ Finish(p, StoreResult(-17, loc[p].steps \o <<"write">>, <<>>))
        /\ ForgetFault(p)
        /\ UNCHANGED <<files, stored0>>
     \/ /\ files' = [files EXCEPT ![key_file_path(call[p].key_id.head)] = File(loc[p].json)]
        /\ Finish(p, StoreResult(0, loc[p].steps \o <<"write">>, <<>>))
        /\ stored0' = stored0 \cup {key_file_path(call[p].key_id.head)}
        /\ Forget(p)
  /\ UNCHANGED <<envPw, dirExists, call>>

\* ------------------------------------------------------------------------
\* rust_lib_health_check
\* ------------------------------------------------------------------------
HealthCheck(p) ==
  /\ pc[p] \in {"idle", "done"}
  /\ call' = [call EXCEPT ![p] = HealthCall]
  /\ loc' = [loc EXCEPT ![p] = NoLoc]
  /\ Finish(p, StoreResult(0, <<>>, <<>>))
  /\ UNCHANGED <<envPw, dirExists, files, stored0>>

\* ------------------------------------------------------------------------
\* The environment
\* ------------------------------------------------------------------------
\* The process sets or clears JULIAOS_KEYSTORE_PASSWORD.
SetPassword(v) ==
  /\ v # envPw
  /\ envPw' = v
  /\ UNCHANGED <<dirExists, files, pc, call, loc, outBuf, res, status, stored0>>

\* Something else than this library alters a key file the library wrote.
Tamper(f, kind) ==
  /\ files[f].exists
  /\ files[f].content \in IntactRecords
  /\ files' = [files EXCEPT ![f] = File(Tampered(files[f].content, kind))]
  /\ UNCHANGED <<envPw, dirExists, pc, call, loc, outBuf, res, status, stored0>>

\* ------------------------------------------------------------------------
\* Specifications
\* ------------------------------------------------------------------------
\* One more step of a call in progress.
Step(p, draws) ==
  \/ SignEnv(p)
  \/ SignDir(p)
  \/ SignExists(p)
  \/ SignRead(p)
  \/ StoreDir(p, draws)
  \/ StoreExists(p)
  \/ StoreCreate(p)
  \/ StoreWrite(p)

Environment ==
  \/ \E v \in EnvValues : SetPassword(v)
  \/ \E f \in KeyFiles, kind \in TamperKinds : Tamper(f, kind)

\* Callers on two threads, whose calls overlap in every way.
Next ==
  \/ \E p \in Procs, a \in ConcurrentSignCalls : SignCall(p, a)
  \/ \E p \in Procs, a \in ConcurrentStoreCalls : StoreCall(p, a)
  \/ \E p \in Procs : HealthCheck(p)
  \/ \E p \in Procs : Step(p, ConcurrentDraws)
  \/ Environment

Spec == Init /\ [][Next]_vars

\* One caller, whose calls follow one another, with every argument of SignCalls.
Caller == CHOOSE p \in Procs : \A q \in Procs : p <= q

NextSeq ==
  \/ \E a \in SignCalls : SignCall(Caller, a)
  \/ \E a \in StoreCalls : StoreCall(Caller, a)
  \/ HealthCheck(Caller)
  \/ Step(Caller, RngDraws)
  \/ Environment

SpecSeq == Init /\ [][NextSeq]_vars

\* One caller again, whose identifiers have path components.
NextPath ==
  \/ \E a \in PathSignCalls : SignCall(Caller, a)
  \/ \E a \in PathStoreCalls : StoreCall(Caller, a)
  \/ HealthCheck(Caller)
  \/ Step(Caller, ConcurrentDraws)
  \/ Environment

SpecPath == Init /\ [][NextPath]_vars

\* ------------------------------------------------------------------------
\* Properties
\* ------------------------------------------------------------------------
SignDone(p) == pc[p] = "done" /\ call[p].op = "sign"

StoreDone(p) == pc[p] = "done" /\ call[p].op = "store"

\* The steps the call of p has run so far.
StepsOf(p) == IF pc[p] = "done" THEN res[p].steps ELSE loc[p].steps

Reached(p, step) == \E i \in 1..Len(StepsOf(p)) : StepsOf(p)[i] = step

\* C1: a signing call that returns a success status has written exactly the n
\* characters of the signed text at offsets 0..n-1 and one terminator at offset
\* n, with n + 1 <= capacity; and no call ever writes at an offset >= capacity,
\* whatever the capacity (0 included).
C1_WritesStayInsideCapacity ==
  \A p \in Procs :
    call[p].op = "sign" =>
      /\ \A i \in 1..Len(outBuf[p]) :
           WLeq(WAdd(outBuf[p][i].off, outBuf[p][i].len), call[p].cap)
      /\ (pc[p] = "done" /\ status[p] >= 0) =>
           /\ res[p].signed
           /\ outBuf[p] = <<Run(<<0, 0>>, res[p].hexlen, "hex"),
                            Run(res[p].hexlen, <<0, 1>>, "nul")>>
           /\ WLeq(WAdd(res[p].hexlen, <<0, 1>>), call[p].cap)
           /\ status[p] = res[p].hexlen[1] * LimbBase + res[p].hexlen[2]

\* C1 witness: a call returns 196 into a buffer of exactly 197 bytes.
C1_Witness ==
  \E p \in Procs :
    /\ SignDone(p) /\ status[p] = 196 /\ call[p].cap = <<0, 197>>
    /\ Len(outBuf[p]) = 2

\* C2: when every earlier step has succeeded and the capacity is smaller than
\* the length of the signed text plus one, the call returns -3 and has written
\* nothing.
C2_TooSmallReturnsMinus3Unwritten ==
  \A p \in Procs :
    (SignDone(p) /\ res[p].signed
       /\ ~WLeq(WAdd(res[p].hexlen, <<0, 1>>), call[p].cap))
      => (status[p] = -3 /\ outBuf[p] = <<>>)

\* C2 witness: 196 characters and a capacity of 196, one short of the terminator.
C2_Witness ==
  \E p \in Procs :
    /\ SignDone(p) /\ res[p].signed /\ res[p].hexlen = <<0, 196>>
    /\ call[p].cap = <<0, 196>> /\ status[p] = -3

\* C3 (as claimed): whenever a signing call returns a negative status, the
\* output buffer is as it was before the call.
C3_NegativeStatusLeavesBufferUntouched ==
  \A p \in Procs : (SignDone(p) /\ status[p] < 0) => outBuf[p] = <<>>

C5_AtMostOneStoreSucceeds ==
  \A p, q \in Procs :
    (p # q /\ StoreDone(p) /\ StoreDone(q) /\ call[p].key_id = call[q].key_id
       /\ status[p] = 0) => status[q] # 0

\* C6: a panic at any step of sign_evm_transaction_ffi or store_new_key_ffi ends
\* the call with status -5: the call is over, and the status it returned is -5.
C6_PanicReturnsMinus5 ==
  \A p \in Procs :
    res[p].unwound => (pc[p] = "done" /\ status[p] = -5)

\* C6 witness: a signing call has panicked on a nonce of the wrong length, a
\* store call on the random source, and both have returned -5.
C6_Witness ==
  \E p, q \in Procs :
    /\ SignDone(p) /\ res[p].unwound /\ status[p] = -5
    /\ StoreDone(q) /\ res[q].unwound /\ status[q] = -5

\* The value / the recipient of a signing call does not parse.
BadValue(a) ==
  LET s == c_str_to_string(a.value) IN ~s.ok \/ ~parse_u256(StripPrefix0x(s)).ok

BadTo(a) ==
  LET s == c_str_to_string(a.to) IN ~s.ok \/ ~parse_address(StripPrefix0x(s)).ok

BadKeyId(a) == ~c_str_to_string(a.key_id).ok

\* C7 (as claimed): a signing call whose value is not hexadecimal text, or whose
\* recipient is not 20 bytes, returns -4.
C7_BadValueOrToReturnsMinus4 ==
  \A p \in Procs :
    (SignDone(p) /\ (BadValue(call[p]) \/ BadTo(call[p]))) => status[p] = -4

\* C7 (amended): such a call returns a negative status, assembles and signs no
\* transaction and writes nothing. The status is -4 when the call gets as far
\* as decoding the fields (the identifier is readable, the password is set, the
\* key file decrypts to a signing key); a call that fails earlier returns the
\* status of that failure: -4 for the identifier, -5 for a panic, -1 otherwise.
C7_BadValueOrToNeverSigned ==
  \A p \in Procs :
    (SignDone(p) /\ (BadValue(call[p]) \/ BadTo(call[p]))) =>
      /\ ~res[p].tx.built /\ ~res[p].signed /\ outBuf[p] = <<>>
      /\ Reached(p, "assemble") => status[p] = -4
      /\ ~Reached(p, "assemble") =>
           status[p] = IF BadKeyId(call[p]) THEN -4
                       ELSE IF res[p].unwound THEN -5 ELSE -1

\* C7 witness: a call with the value "xyz" has decoded its fields and returned -4.
C7_Witness ==
  \E p \in Procs :
    /\ SignDone(p) /\ call[p].value = XYZ
    /\ Reached(p, "assemble") /\ status[p] = -4

\* The steps of sign_evm_transaction_ffi in the order of the code.
SignOrder ==
  <<"convert_id", "password", "storage_path", "exists", "read", "deserialize",
    "derive", "decrypt", "signing_key", "assemble", "sign", "encode", "capacity",
    "write">>

IsPrefix(s, t) == Len(s) <= Len(t) /\ s = SubSeq(t, 1, Len(s))

\* A field of the signing call is malformed.
Malformed(a) == BadKeyId(a) \/ ~assemble_tx(a).built

\* C8 (as claimed): all the fields are validated before the key file is read,
\* so a signing call with a malformed field never reads the key file.
C8_MalformedFieldNeverReachesLoad ==
  \A p \in Procs :
    (call[p].op = "sign" /\ Malformed(call[p])) => ~Reached(p, "read")

\* C8 (amended): a signing call runs its steps in the order of SignOrder and
\* stops at the first that fails. Of the fields only the key identifier is
\* validated before the key file is read: a call with a malformed identifier
\* returns -4 and never enters the load, while the recipient, the value, the
\* data and the gas price are decoded only after the key is decrypted and the
\* signing key is built.
C8_StepsInOrderIdentifierFirst ==
  \A p \in Procs :
    call[p].op = "sign" =>
      /\ IsPrefix(StepsOf(p), SignOrder)
      /\ BadKeyId(call[p]) =>
           /\ ~loc[p].loaded /\ ~Reached(p, "password")
           /\ pc[p] = "done" => status[p] = -4
      /\ Reached(p, "storage_path") => loc[p].loaded
      /\ (pc[p] = "done" /\ ~BadKeyId(call[p]) /\ ~assemble_tx(call[p]).built) =>
           (status[p] = -4 <=> Reached(p, "assemble"))

\* C8 witness: a call with a malformed recipient has read and decrypted the key
\* file, and returned -4 at the decoding of the fields.
C8_Witness ==
  \E p \in Procs :
    /\ SignDone(p) /\ BadTo(call[p]) /\ loc[p].loaded
    /\ res[p].steps = SubSeq(SignOrder, 1, 10) /\ status[p] = -4

\* C9: a signing call that reads a key file stored under one password while
\* another password is configured fails at the decryption: it returns -1, holds
\* no decrypted byte, assembles and signs nothing and writes nothing, whatever
\* its other fields.
C9_WrongPasswordFailsAtDecryption ==
  \A p \in Procs :
    (SignDone(p) /\ loc[p].cause = "wrong_password") =>
      /\ status[p] = -1
      /\ res[p].steps = SubSeq(SignOrder, 1, 8)
      /\ res[p].pk = <<>> /\ ~res[p].tx.built /\ ~res[p].signed
      /\ outBuf[p] = <<>>

\* C9 witness: such a call, with a well-formed transaction and room for the
\* result, has returned -1.
C9_Witness ==
  \E p \in Procs :
    /\ SignDone(p) /\ loc[p].cause = "wrong_password" /\ call[p] = GoodSign
    /\ status[p] = -1 /\ envPw.set
    /\ files[key_file_path(KeyA)].content \in RecordsOf[CHOOSE w \in Passwords : w # envPw.val]

\* C10: two signing calls with the same arguments, one failing on a wrong
\* password against an intact key file, the other on the right password
\* against a key file whose ciphertext or tag was altered, return the same
\* status, -1, and leave the same output buffer.
C10_DecryptionFailuresIndistinguishable ==
  \A p, q \in Procs :
    (/\ SignDone(p) /\ SignDone(q) /\ call[p] = call[q]
     /\ loc[p].cause = "wrong_password" /\ loc[q].cause = "corrupted") =>
      /\ status[p] = status[q] /\ status[p] = -1
      /\ outBuf[p] = outBuf[q]

\* C10 witness: the two calls have both returned.
C10_Witness ==
  \E p, q \in Procs :
    /\ SignDone(p) /\ SignDone(q) /\ call[p] = call[q]
    /\ loc[p].cause = "wrong_password" /\ loc[q].cause = "corrupted"
    /\ status[p] = -1 /\ status[q] = -1

\* Secret keys, uniform and not, to take through the encryption and back.
RoundTripSecrets ==
  {Rep(17, PK_SIZE), Rep(200, PK_SIZE), Rep(0, PK_SIZE), Rep(255, PK_SIZE),
   [i \in 1..PK_SIZE |-> (7 * i) % 256], [i \in 1..PK_SIZE |-> 256 - i]}

\* The secrets, draws and passwords for which encrypt_pk_and_prepare_file_data,
\* to_string_pretty, then the whole of load_and_decrypt_pk after the read, do
\* not give the secret key back.
RoundTripFailures ==
  {c \in RoundTripSecrets \X RngDraws \X Passwords :
     LET enc  == encrypt_pk_and_prepare_file_data(c[1], c[3], c[2].salt, c[2].nonce)
         back == decrypt_key_file(to_string_pretty(enc.file), c[3])
     IN  ~(enc.ok /\ back.res = "ok" /\ back.pk = c[1])}

\* C11: the key file made from a 32-byte secret under a password decrypts under
\* the same password to that secret; so a signing call that reads, under the
\* password it was stored with, a key file a store call wrote, completes the
\* load and holds the secret key generated by that store call.
C11_RoundTrip ==
  /\ RoundTripFailures = {}
  /\ \A p \in Procs :
       (SignDone(p) /\ loc[p].secret # <<>>) =>
         /\ Reached(p, "decrypt") /\ Reached(p, "signing_key")
         /\ ~res[p].unwound /\ res[p].pk = loc[p].secret

\* C11 witness: a signing call has loaded the key of the second draw.
C11_Witness ==
  \E p \in Procs :
    /\ SignDone(p) /\ loc[p].secret = Rep(200, PK_SIZE)
    /\ res[p].pk = Rep(200, PK_SIZE) /\ status[p] > 0

\* C12 (as claimed): a signing call with a readable identifier and a password
\* that is set, whose load of the key ends without a key (no key file, a key
\* file that does not parse, decode, or decrypt to 32 bytes), returns -1.
C12_LoadFailureReturnsMinus1 ==
  \A p \in Procs :
    (SignDone(p) /\ Reached(p, "storage_path") /\ ~Reached(p, "signing_key"))
      => status[p] = -1

\* C13 (as claimed): store_new_key_ffi returns only 0 or -11 .. -17,
\* sign_evm_transaction_ffi only the length it wrote or -1 .. -5, and
\* rust_lib_health_check only 0.
C13_StatusInDocumentedSet ==
  \A p \in Procs :
    pc[p] = "done" =>
      CASE call[p].op = "store" -> status[p] \in {0} \cup (-17 .. -11)
        [] call[p].op = "sign" ->
             \/ status[p] \in -5 .. -1
             \/ /\ status[p] >= 0 /\ Reached(p, "write")
                /\ WOf(status[p]) = res[p].hexlen
        [] OTHER -> status[p] = 0

\* A step of a signing call.
SignStep == \E p \in Procs : pc[p] \in {"s_env", "s_dir", "s_exists", "s_read"} /\ pc'[p] # pc[p]

\* C14 (as claimed): no step of a signing call changes the key store: the
\* directory is there after the step if and only if it was before, and every
\* key file is as it was.
C14_SignLeavesKeyStoreAlone ==
  [][SignStep => (dirExists' = dirExists /\ files' = files)]_vars

\* A file directly inside the key store directory.
InsideKeyStore(f) ==
  Len(f) = Len(KeyStoreDir) + 1 /\ SubSeq(f, 1, Len(KeyStoreDir)) = KeyStoreDir

\* C15 (as claimed): the key file a call looks for, reads, creates or writes is
\* directly inside the key store directory, and no other identifier has the
\* same key file; no file outside the directory comes to exist.
C15_KeyFileInsideKeyStore ==
  /\ \A p \in Procs :
       (call[p].op \in {"sign", "store"} /\ Reached(p, "exists")) =>
         /\ InsideKeyStore(key_file_path(call[p].key_id.head))
         /\ \A i \in Identifiers \ {call[p].key_id.head} :
              key_file_path(i) # key_file_path(call[p].key_id.head)
  /\ \A f \in KeyFiles : files[f].exists => InsideKeyStore(f)

\* The secret keys the store calls generate.
GeneratedSecrets == {d.pk : d \in RngDraws}

\* The byte string holds the 32 bytes of `secret` in a row.
Contains(bytes, secret) ==
  \E i \in 1..(Len(bytes) - Len(secret) + 1) :
    SubSeq(bytes, i, i + Len(secret) - 1) = secret

\* The bytes a key file holds: its three fields, decoded where they decode.
FileBytes(content) ==
  LET enc == from_str(content)
  IN  IF ~enc.ok THEN {}
      ELSE {base64_decode(t).bytes : t \in {enc.salt, enc.nonce, enc.ciphertext}}

Diagnostics(a, r) ==
  IF a.op = "sign" THEN sign_diagnostics(a, r)
  ELSE IF a.op = "store" THEN store_diagnostics(a, r)
  ELSE <<>>

DiagnosticSources == {"error", "const", "size", "key_id", "to", "value", "data", "gas_price"}

\* C16: the raw secret key is in none of the channels: no key file holds the 32
\* bytes of a generated secret (a key file has its three members, salt, nonce
\* and ciphertext); what is written to the output buffer is the encoding of a
\* transaction assembled from the arguments alone, and its terminator; the
\* status is a number; and the diagnostics of a call are made of its arguments,
\* sizes and error values, the same whatever key the call held.
C16_SecretInNoChannel ==
  /\ \A f \in KeyFiles :
       (files[f].exists /\ files[f].content # <<>>) =>
         /\ {files[f].content[i].k : i \in 1..Len(files[f].content)}
              = {"salt", "nonce", "ciphertext"}
         /\ \A b \in FileBytes(files[f].content), S \in GeneratedSecrets : ~Contains(b, S)
  /\ \A p \in Procs :
       /\ \A i \in 1..Len(outBuf[p]) : outBuf[p][i].src \in {"hex", "nul"}
       /\ res[p].tx.built => res[p].tx = assemble_tx(call[p])
       /\ status[p] \in Int
       /\ pc[p] = "done" =>
            LET d == Diagnostics(call[p], res[p])
            IN  /\ d = Diagnostics(call[p], [res[p] EXCEPT !.pk = <<>>])
                /\ \A i \in 1..Len(d) : \A j \in 1..Len(d[i].args) :
                     d[i].args[j].src \in DiagnosticSources

\* C16 witness: a signing call has held a generated secret, signed and written
\* its result, while the key file it read is in the key store.
C16_Witness ==
  \E p \in Procs :
    /\ SignDone(p) /\ res[p].pk \in GeneratedSecrets /\ res[p].signed
    /\ Len(outBuf[p]) = 2 /\ files[key_file_path(KeyA)].content \in IntactRecords

\* C17 (as claimed): a signing call that has written its result returns a
\* status that is not negative and is the number of characters written.
C17_WrittenLengthIsReturned ==
  \A p \in Procs :
    (SignDone(p) /\ Reached(p, "write")) =>
      /\ status[p] >= 0
      /\ WOf(status[p]) = res[p].hexlen

\* The status each step of sign_evm_transaction_ffi returns when it fails.
StepCode(step) ==
  CASE step \in {"convert_id", "assemble"} -> -4
    [] step = "sign" -> -2
    [] step = "capacity" -> -3
    [] OTHER -> -1

\* C18: a signing call runs read, deserialize, decrypt, signing key, assembly,
\* sign and encode, write in that order; the step that fails ends the call with
\* its code (-5 when it panics) and no later step runs: no key is held unless
\* the decryption succeeded, no transaction is assembled unless the signing key
\* was built, no signature is computed unless the transaction was assembled,
\* and nothing is written unless the capacity check passed.
C18_FailureStopsThePipeline ==
  \A p \in Procs :
    SignDone(p) =>
      /\ IsPrefix(res[p].steps, SignOrder)
      /\ status[p] = IF res[p].unwound THEN -5
                     ELSE IF LastStep(res[p]) = "write" THEN ReturnedLength(res[p].hexlen)
                     ELSE StepCode(LastStep(res[p]))
      /\ res[p].pk # <<>> <=> Reached(p, "signing_key")
      /\ res[p].tx.built <=> Reached(p, "sign")
      /\ res[p].signed <=> Reached(p, "encode")
      /\ outBuf[p] # <<>> <=> Reached(p, "write")

\* C18 witness: the signature has failed; the transaction was assembled, there
\* is no signature and nothing is written.
C18_Witness ==
  \E p \in Procs :
    /\ SignDone(p) /\ status[p] = -2 /\ res[p].steps = SubSeq(SignOrder, 1, 11)
    /\ res[p].tx.built /\ ~res[p].signed /\ outBuf[p] = <<>>

\* No store call is in progress.
NoStoreInProgress == \A p \in Procs : pc[p] \notin {"t_dir", "t_exists", "t_create", "t_write"}

\* C19 (as claimed): between store calls, a key file is there, and complete,
\* exactly when a store call for it has returned 0; a store call that returns a
\* negative status leaves no key file that was not there before.
C19_StoreIsAllOrNothing ==
  NoStoreInProgress =>
    \A f \in KeyFiles :
      /\ files[f].exists <=> f \in stored0
      /\ files[f].exists => files[f].content # <<>>

====
